---- MODULE Spec2Model ----
(***************************************************************************)
(* Model of streamlit_renewable_calculator.py: the present-value helpers,  *)
(* the levelized-cost chain and the tornado sensitivity sweep of main().   *)
(*                                                                         *)
(* Python floats are modelled as exact rationals <<num, den>> in lowest    *)
(* terms with den > 0; rounding of IEEE arithmetic is not modelled.        *)
(* Three values with den = 0 stand for what is not a finite number:        *)
(* Inf (float("inf")), ZeroDivisionError (a float division by zero         *)
(* raises) and Unbound (a local name that was never assigned).             *)
(***************************************************************************)
EXTENDS Integers, Sequences, FiniteSets, TLC

(***************************************************************************)
(* Float arithmetic                                                        *)
(***************************************************************************)
Abs(x) == IF x < 0 THEN -x ELSE x

RECURSIVE Gcd(_, _)
Gcd(a, b) == IF b = 0 THEN a ELSE Gcd(b, a % b)

\* the float num/den, den > 0, in lowest terms
Rat(num, den) ==
    LET g == Gcd(Abs(num), den)
    IN  <<num \div g, den \div g>>

Zero == <<0, 1>>
One == <<1, 1>>
Inf == <<1, 0>>
ZeroDivisionError == <<-1, 0>>
Unbound == <<0, 0>>

IsNumber(a) == a[2] > 0

Neg(a) == <<-a[1], a[2]>>

Add(a, b) ==
    LET g == Gcd(a[2], b[2])
    IN  Rat(a[1] * (b[2] \div g) + b[1] * (a[2] \div g), (a[2] \div g) * b[2])

Sub(a, b) == Add(a, Neg(b))

Mul(a, b) ==
    LET g1 == Gcd(Abs(a[1]), b[2])
        g2 == Gcd(Abs(b[1]), a[2])
    IN  <<(a[1] \div g1) * (b[1] \div g2), (a[2] \div g2) * (b[2] \div g1)>>

\* a / b : Python raises ZeroDivisionError when b == 0
Div(a, b) ==
    IF b[1] = 0 THEN ZeroDivisionError
    ELSE IF b[1] > 0 THEN Mul(a, <<b[2], b[1]>>)
    ELSE Mul(a, <<-b[2], -b[1]>>)

Less(a, b) ==
    LET g == Gcd(a[2], b[2])
    IN  a[1] * (b[2] \div g) < b[1] * (a[2] \div g)

Leq(a, b) == ~Less(b, a)

\* Python max(a, b) and min(a, b): the first argument unless the second beats it
Max(a, b) == IF Less(a, b) THEN b ELSE a
Min(a, b) == IF Less(b, a) THEN b ELSE a

AbsR(a) == <<Abs(a[1]), a[2]>>

RECURSIVE Pow(_, _)
Pow(a, t) == IF t = 0 THEN One ELSE Mul(a, Pow(a, t - 1))

(***************************************************************************)
(* Helpers (lines 15-41)                                                   *)
(***************************************************************************)
Million == 1000000
HoursPerYear == 8760
H2EnergyContent == <<333, 10000>>     \* 0.0333 MWh/kg
NH3EnergyContent == <<517, 100>>      \* 5.17 MWh/tonne
MeOHEnergyContent == <<553, 100>>     \* 5.53 MWh/tonne
EffFloor == <<1, 1000000000>>         \* 1e-9

\* sum(annual / ((1 + r) ** t) for t in range(1, n + 1))
RECURSIVE DiscountedSum(_, _, _)
DiscountedSum(annual, r, n) ==
    IF n = 0 THEN Zero
    ELSE Add(DiscountedSum(annual, r, n - 1), Div(annual, Pow(Add(One, r), n)))

\* a plausible slip: compounding (multiplying by (1+r)^t) instead of discounting
RECURSIVE CompoundedSum(_, _, _)
CompoundedSum(annual, r, n) ==
    IF n = 0 THEN Zero
    ELSE Add(CompoundedSum(annual, r, n - 1), Mul(annual, Pow(Add(One, r), n)))

pv_costs_split_compounding(capex_mln_per_mw, opex_mln_per_mw_per_year, capacity_mw, r, n) ==
    LET capex_usd_per_mw == Mul(capex_mln_per_mw, <<Million, 1>>)
        opex_usd_per_mw_per_year == Mul(opex_mln_per_mw_per_year, <<Million, 1>>)
        pv_capex == Mul(capacity_mw, capex_usd_per_mw)
        annual_opex == Mul(capacity_mw, opex_usd_per_mw_per_year)
        pv_opex == CompoundedSum(annual_opex, r, n)
    IN  <<pv_capex, pv_opex, Add(pv_capex, pv_opex)>>

pv_costs_split(capex_mln_per_mw, opex_mln_per_mw_per_year, capacity_mw, r, n) ==
    LET capex_usd_per_mw == Mul(capex_mln_per_mw, <<Million, 1>>)
        opex_usd_per_mw_per_year == Mul(opex_mln_per_mw_per_year, <<Million, 1>>)
        pv_capex == Mul(capacity_mw, capex_usd_per_mw)
        annual_opex == Mul(capacity_mw, opex_usd_per_mw_per_year)
        pv_opex == DiscountedSum(annual_opex, r, n)
    IN  <<pv_capex, pv_opex, Add(pv_capex, pv_opex)>>

pv_energy_mwh(capacity_mw, capacity_factor, r, n) ==
    LET annual_mwh == Mul(Mul(capacity_mw, <<HoursPerYear, 1>>), capacity_factor)
    IN  DiscountedSum(annual_mwh, r, n)

\* a plausible slip: the zero-energy guard left out
lcoe_from_costs_unguarded(pv_costs_total, pv_energy) ==
    Div(pv_costs_total, pv_energy)

lcoe_from_costs(pv_costs_total, pv_energy) ==
    IF pv_energy[1] = 0 THEN Inf ELSE Div(pv_costs_total, pv_energy)

lcoh_from_lcoe(lcoe_chain_usd_per_mwh, electrolyzer_eff_) ==
    LET eff == Max(electrolyzer_eff_, EffFloor)
    IN  Mul(lcoe_chain_usd_per_mwh, Div(H2EnergyContent, eff))

lcoa_from_lcoh(lcoh_usd_per_kg, h2_to_nh3_eff) ==
    LET eff == Max(h2_to_nh3_eff, EffFloor)
    IN  Mul(Div(Div(lcoh_usd_per_kg, H2EnergyContent), eff), NH3EnergyContent)

lcom_from_lcoh(lcoh_usd_per_kg, h2_to_meoh_eff) ==
    LET eff == Max(h2_to_meoh_eff, EffFloor)
    IN  Mul(Div(Div(lcoh_usd_per_kg, H2EnergyContent), eff), MeOHEnergyContent)

(***************************************************************************)
(* main(): one run of the script.  A run renders the input widgets and     *)
(* computes the block present values (lines 57-166); pressing Calculate    *)
(* runs lines 170-338 on those values.  Every interaction after that       *)
(* starts the script again with fresh locals.                              *)
(***************************************************************************)
VARIABLES
    pc,                      \* "start", "rendered", "done" or "fault"
    product, mode,
    gen_mw, capex_gen_mln, opex_gen_mln, cf, r, n,
    pv_elec, pv_cost_gen, lcoe_up,
    elz_mw, capex_elz_mln, opex_elz_mln, electrolyzer_eff, pv_cost_elz,
    syn_mw, capex_syn_mln, opex_syn_mln, nh3_eff, meoh_eff,
    co2_cons_t_per_t_meoh, co2_price_usd_per_t, pv_cost_syn,
    lcoe_chain, final_kpi_label, final_kpi_value,
    sens_pct, baseline, entries,
    trials,                  \* per loop iteration: key, the kwargs passed, low, high
    call                     \* last direct call of a helper (helper-level specification)

inputs == <<product, mode, gen_mw, capex_gen_mln, opex_gen_mln, cf, r, n,
            pv_elec, pv_cost_gen, lcoe_up,
            elz_mw, capex_elz_mln, opex_elz_mln, electrolyzer_eff, pv_cost_elz,
            syn_mw, capex_syn_mln, opex_syn_mln, nh3_eff, meoh_eff,
            co2_cons_t_per_t_meoh, co2_price_usd_per_t, pv_cost_syn>>

results == <<lcoe_chain, final_kpi_label, final_kpi_value, sens_pct, baseline,
             entries, trials>>

vars == <<pc, inputs, results, call>>

\* ---- widget domains: each set lies inside the widget's min_value / range ----
\* TLC integers are 32 bits wide, so the values are picked to keep every
\* numerator and denominator of the exact arithmetic below 2^31: capacities of
\* 0.1 MW and costs of 0.00219 mln/MW cancel the factors 1e6 and 8760, and a
\* discount rate of 100% keeps (1 + r) ** t and its perturbations small.
MaxLifetime == 2

Products == {"Electricity (Electrons)", "Hydrogen", "Ammonia", "Methanol"}
Modes == {"Simple multipliers", "Detailed breakdown"}

GenMwSet == {<<1, 10>>}                      \* min_value 0.1
CapexGenSet == {<<219, 100000>>, <<219, 50000>>}  \* min_value 0.001
OpexGenSet == {<<219, 100000>>}               \* min_value 0.001
CfSet == {<<1, 25>>, <<1, 4>>}               \* percent / 100, min_value 1.0
RateSet == {<<1, 1>>}                        \* percent / 100, min_value 0.1
SizeRatioSet == {<<1, 1>>}                   \* percent / 100, min_value 1.0
MultSet == {<<0, 1>>, <<1, 1>>}              \* percent / 100, min_value 0.0
DetailMwSet == {<<1, 10>>}                   \* min_value 0.1
DetailCapexSet == {<<219, 100000>>}           \* min_value 0.001
DetailOpexSet == {<<219, 100000>>}            \* min_value 0.001
EffSet == {<<1, 2>>, <<1, 1>>}               \* percent / 100, min_value 10.0
Co2ConsSet == {<<0, 1>>, <<1, 1>>}           \* min_value 0.0
Co2PriceSet == {<<0, 1>>, <<2, 1>>}          \* min_value 0.0
\* st.slider(5, 50, 20, step=5) / 100: the smallest, the default and the largest
SensPctSet == {<<1, 5>>, <<1, 2>>}

need_h2 == product \in {"Hydrogen", "Ammonia", "Methanol"}
need_syn == product \in {"Ammonia", "Methanol"}

Init ==
    /\ pc = "start"
    /\ product = "" /\ mode = ""
    /\ gen_mw = Unbound /\ capex_gen_mln = Unbound /\ opex_gen_mln = Unbound
    /\ cf = Unbound /\ r = Unbound /\ n = 0
    /\ pv_elec = Unbound /\ pv_cost_gen = Unbound /\ lcoe_up = Unbound
    /\ elz_mw = Unbound /\ capex_elz_mln = Unbound /\ opex_elz_mln = Unbound
    /\ electrolyzer_eff = Unbound /\ pv_cost_elz = Unbound
    /\ syn_mw = Unbound /\ capex_syn_mln = Unbound /\ opex_syn_mln = Unbound
    /\ nh3_eff = Unbound /\ meoh_eff = Unbound
    /\ co2_cons_t_per_t_meoh = Unbound /\ co2_price_usd_per_t = Unbound
    /\ pv_cost_syn = Unbound
    /\ lcoe_chain = Unbound /\ final_kpi_label = "" /\ final_kpi_value = Unbound
    /\ sens_pct = Unbound /\ baseline = Unbound
    /\ entries = <<>> /\ trials = <<>>
    /\ call = [fn |-> "none"]

\* lines 57-166: the widgets are read and the block present values computed
Render ==
    /\ pc = "start"
    /\ \E p \in Products, m \in Modes :
       LET h2 == p \in {"Hydrogen", "Ammonia", "Methanol"}
           syn == p \in {"Ammonia", "Methanol"}
           simple == m = "Simple multipliers"
       IN
       \E g \in GenMwSet, cg \in CapexGenSet, og \in OpexGenSet,
          c \in CfSet, rr \in RateSet, nn \in 1..MaxLifetime,
          \* electrolyzer widgets exist only when need_h2
          e1 \in IF h2 THEN (IF simple THEN SizeRatioSet ELSE DetailMwSet) ELSE {Zero},
          e2 \in IF h2 THEN (IF simple THEN MultSet ELSE DetailCapexSet) ELSE {Zero},
          e3 \in IF h2 THEN (IF simple THEN MultSet ELSE DetailOpexSet) ELSE {Zero},
          ee \in IF h2 THEN EffSet ELSE {<<3, 4>>},
          \* synthesis widgets exist only when need_syn
          s1 \in IF syn THEN (IF simple THEN SizeRatioSet ELSE DetailMwSet) ELSE {Zero},
          s2 \in IF syn THEN (IF simple THEN MultSet ELSE DetailCapexSet) ELSE {Zero},
          s3 \in IF syn THEN (IF simple THEN MultSet ELSE DetailOpexSet) ELSE {Zero},
          se \in IF syn THEN EffSet ELSE {Zero},
          cc \in IF p = "Methanol" THEN Co2ConsSet ELSE {Zero},
          cp \in IF p = "Methanol" THEN Co2PriceSet ELSE {Zero} :
       LET emw == IF ~h2 THEN Zero ELSE IF simple THEN Mul(g, e1) ELSE e1
           ecap == IF ~h2 THEN Zero ELSE IF simple THEN Mul(cg, e2) ELSE e2
           eop == IF ~h2 THEN Zero ELSE IF simple THEN Mul(og, e3) ELSE e3
           smw == IF ~syn THEN Zero
                  ELSE IF simple THEN Mul(IF h2 THEN emw ELSE g, s1) ELSE s1
           scap == IF ~syn THEN Zero ELSE IF simple THEN Mul(cg, s2) ELSE s2
           sop == IF ~syn THEN Zero ELSE IF simple THEN Mul(og, s3) ELSE s3
           energy == pv_energy_mwh(g, c, rr, nn)
           costg == pv_costs_split(cg, og, g, rr, nn)[3]
       IN
       /\ product' = p /\ mode' = m
       /\ gen_mw' = g /\ capex_gen_mln' = cg /\ opex_gen_mln' = og
       /\ cf' = c /\ r' = rr /\ n' = nn
       /\ pv_elec' = energy
       /\ pv_cost_gen' = costg
       /\ lcoe_up' = lcoe_from_costs(costg, energy)
       /\ elz_mw' = emw /\ capex_elz_mln' = ecap /\ opex_elz_mln' = eop
       /\ electrolyzer_eff' = ee
       /\ pv_cost_elz' = IF h2 THEN pv_costs_split(ecap, eop, emw, rr, nn)[3] ELSE Zero
       /\ syn_mw' = smw /\ capex_syn_mln' = scap /\ opex_syn_mln' = sop
       /\ nh3_eff' = IF p = "Ammonia" THEN se ELSE <<21, 40>>
       /\ meoh_eff' = IF p = "Methanol" THEN se ELSE <<99, 200>>
       \* lines 159-164 sit inside "if need_syn:"; otherwise the names stay unassigned
       /\ co2_cons_t_per_t_meoh' = IF syn THEN cc ELSE Unbound
       /\ co2_price_usd_per_t' = IF syn THEN cp ELSE Unbound
       /\ pv_cost_syn' = IF syn THEN pv_costs_split(scap, sop, smw, rr, nn)[3] ELSE Zero
    /\ pc' = "rendered"
    /\ UNCHANGED <<results, call>>

(***************************************************************************)
(* Lines 170-188: chain LCOE and final KPI                                 *)
(***************************************************************************)
pv_chain == Add(Add(pv_cost_gen, pv_cost_elz), pv_cost_syn)

\* a plausible slip: line 188 (the CO2 surcharge) left out
final_kpi_without_surcharge(lcoe) ==
    CASE product = "Hydrogen" -> lcoh_from_lcoe(lcoe, electrolyzer_eff)
      [] product = "Ammonia" ->
            lcoa_from_lcoh(lcoh_from_lcoe(lcoe, electrolyzer_eff), nh3_eff)
      [] product = "Methanol" ->
            lcom_from_lcoh(lcoh_from_lcoe(lcoe, electrolyzer_eff), meoh_eff)
      [] OTHER -> lcoe

final_kpi(lcoe) ==
    CASE product = "Hydrogen" -> lcoh_from_lcoe(lcoe, electrolyzer_eff)
      [] product = "Ammonia" ->
            lcoa_from_lcoh(lcoh_from_lcoe(lcoe, electrolyzer_eff), nh3_eff)
      [] product = "Methanol" ->
            Add(lcom_from_lcoh(lcoh_from_lcoe(lcoe, electrolyzer_eff), meoh_eff),
                Mul(co2_cons_t_per_t_meoh, co2_price_usd_per_t))
      [] OTHER -> lcoe

kpi_label ==
    CASE product = "Hydrogen" -> "LCOH"
      [] product = "Ammonia" -> "LCOA"
      [] product = "Methanol" -> "LCOM"
      [] OTHER -> "LCOE"

(***************************************************************************)
(* Lines 240-260: recompute.  kw is the keyword arguments of one call, a   *)
(* function from argument names to values; an argument not passed takes    *)
(* its default, the value the outer name had when the def was executed.    *)
(***************************************************************************)
Arg(kw, name, default) == IF name \in DOMAIN kw THEN kw[name] ELSE default

\* line 244: evaluating the defaults reads both CO2 names
defaults_bound ==
    /\ co2_cons_t_per_t_meoh # Unbound
    /\ co2_price_usd_per_t # Unbound

recompute(kw) ==
    LET capex_gen == Arg(kw, "capex_gen", capex_gen_mln)
        opex_gen == Arg(kw, "opex_gen", opex_gen_mln)
        r_ == Arg(kw, "r_", r)
        capex_elz == Arg(kw, "capex_elz", capex_elz_mln)
        opex_elz == Arg(kw, "opex_elz", opex_elz_mln)
        elz_mw_ == Arg(kw, "elz_mw_", elz_mw)
        capex_syn == Arg(kw, "capex_syn", capex_syn_mln)
        opex_syn == Arg(kw, "opex_syn", opex_syn_mln)
        syn_mw_ == Arg(kw, "syn_mw_", syn_mw)
        elz_eff == Arg(kw, "elz_eff", electrolyzer_eff)
        nh3_ == Arg(kw, "nh3_", nh3_eff)
        meoh_ == Arg(kw, "meoh_", meoh_eff)
        co2_cons_ == Arg(kw, "co2_cons_", co2_cons_t_per_t_meoh)
        co2_price_ == Arg(kw, "co2_price_", co2_price_usd_per_t)
        pv_cost_g == pv_costs_split(capex_gen, opex_gen, gen_mw, r_, n)[3]
        pv_cost_e == IF need_h2
                     THEN pv_costs_split(capex_elz, opex_elz, elz_mw_, r_, n)[3]
                     ELSE Zero
        pv_cost_s == IF need_syn
                     THEN pv_costs_split(capex_syn, opex_syn, syn_mw_, r_, n)[3]
                     ELSE Zero
        pv_chain_loc == Add(Add(pv_cost_g, pv_cost_e), pv_cost_s)
        \* cf_ is accepted and never read; the energy is the captured pv_elec
        lcoe_chain_loc == lcoe_from_costs(pv_chain_loc, pv_elec)
    IN  CASE product = "Electricity (Electrons)" -> lcoe_chain_loc
          [] product = "Hydrogen" -> lcoh_from_lcoe(lcoe_chain_loc, elz_eff)
          [] product = "Ammonia" ->
                lcoa_from_lcoh(lcoh_from_lcoe(lcoe_chain_loc, elz_eff), nh3_)
          [] OTHER ->
                Add(lcom_from_lcoh(lcoh_from_lcoe(lcoe_chain_loc, elz_eff), meoh_),
                    Mul(co2_cons_, co2_price_))

(***************************************************************************)
(* Lines 269-287: the parameter list, <<label, key>> in enumeration order  *)
(***************************************************************************)
syn_label == IF product = "Ammonia" THEN "NH3" ELSE "MeOH"

params ==
    <<  <<"Gen CAPEX (mln/MW)", "capex_gen">>,
        <<"Gen OPEX (mln/MW/yr)", "opex_gen">>,
        <<"Capacity Factor (%)", "cf">>,
        <<"Discount Rate (%)", "r">> >>
    \o (IF need_h2
        THEN << <<"Electrolyzer CAPEX (mln/MW)", "capex_elz">>,
                <<"Electrolyzer OPEX (mln/MW/yr)", "opex_elz">>,
                <<"Electrolyzer Efficiency (%)", "elz_eff">> >>
        ELSE <<>>)
    \o (IF need_syn
        THEN << <<syn_label \o " CAPEX (mln/MW)", "capex_syn">>,
                <<syn_label \o " OPEX (mln/MW/yr)", "opex_syn">>,
                <<"H2 -> " \o syn_label \o " Efficiency (%)", "syn_eff">> >>
        ELSE <<>>)
    \o (IF product = "Methanol"
        THEN << <<"CO2 consumption (t/t MeOH)", "co2_cons">>,
                <<"CO2 price (USD/t CO2)", "co2_price">> >>
        ELSE <<>>)

(***************************************************************************)
(* Lines 289-327: the keyword arguments of the low and the high call       *)
(***************************************************************************)
\* x * (1 - sens_pct) and x * (1 + sens_pct)
Down(x, s) == Mul(x, Sub(One, s))

\* a plausible slip: an absolute step, x + sens_pct, instead of a relative one
Up_absolute(x, s) == Add(x, s)

Up(x, s) == Mul(x, Add(One, s))
P01 == <<1, 10>>
P005 == <<1, 20>>
P095 == <<19, 20>>

syn_eff_name == IF product = "Ammonia" THEN "nh3_" ELSE "meoh_"
base_eff == IF product = "Ammonia" THEN nh3_eff ELSE meoh_eff

low_kwargs(key, s) ==
    CASE key = "capex_gen" -> "capex_gen" :> Down(capex_gen_mln, s)
      [] key = "opex_gen" -> "opex_gen" :> Down(opex_gen_mln, s)
      [] key = "cf" -> "cf_" :> Max(P005, Down(cf, s))
      [] key = "r" -> "r_" :> Max(Zero, Down(r, s))
      [] key = "capex_elz" -> "capex_elz" :> Max(Zero, Down(capex_elz_mln, s))
      [] key = "opex_elz" -> "opex_elz" :> Max(Zero, Down(opex_elz_mln, s))
      [] key = "elz_eff" -> "elz_eff" :> Max(P01, Down(electrolyzer_eff, s))
      [] key = "capex_syn" -> "capex_syn" :> Max(Zero, Down(capex_syn_mln, s))
      [] key = "opex_syn" -> "opex_syn" :> Max(Zero, Down(opex_syn_mln, s))
      [] key = "syn_eff" -> syn_eff_name :> Max(P01, Down(base_eff, s))
      [] key = "co2_cons" -> "co2_cons_" :> Max(Zero, Down(co2_cons_t_per_t_meoh, s))
      [] key = "co2_price" -> "co2_price_" :> Max(Zero, Down(co2_price_usd_per_t, s))

high_kwargs(key, s) ==
    CASE key = "capex_gen" -> "capex_gen" :> Up(capex_gen_mln, s)
      [] key = "opex_gen" -> "opex_gen" :> Up(opex_gen_mln, s)
      [] key = "cf" -> "cf_" :> Min(P095, Up(cf, s))
      [] key = "r" -> "r_" :> Up(r, s)
      [] key = "capex_elz" -> "capex_elz" :> Up(capex_elz_mln, s)
      [] key = "opex_elz" -> "opex_elz" :> Up(opex_elz_mln, s)
      [] key = "elz_eff" -> "elz_eff" :> Min(P095, Up(electrolyzer_eff, s))
      [] key = "capex_syn" -> "capex_syn" :> Up(capex_syn_mln, s)
      [] key = "opex_syn" -> "opex_syn" :> Up(opex_syn_mln, s)
      [] key = "syn_eff" -> syn_eff_name :> Min(P095, Up(base_eff, s))
      [] key = "co2_cons" -> "co2_cons_" :> Up(co2_cons_t_per_t_meoh, s)
      [] key = "co2_price" -> "co2_price_" :> Up(co2_price_usd_per_t, s)

(***************************************************************************)
(* Lines 262-267 and 329-335: baseline, one entry per parameter, the sort  *)
(***************************************************************************)
\* the dict literal builds all four values and is indexed by product
baseline_of(lcoe) ==
    LET d == [p \in Products |->
                CASE p = "Electricity (Electrons)" -> lcoe
                  [] p = "Hydrogen" -> lcoh_from_lcoe(lcoe, electrolyzer_eff)
                  [] p = "Ammonia" ->
                        lcoa_from_lcoh(lcoh_from_lcoe(lcoe, electrolyzer_eff), nh3_eff)
                  [] p = "Methanol" ->
                        Add(lcom_from_lcoh(lcoh_from_lcoe(lcoe, electrolyzer_eff), meoh_eff),
                            Mul(co2_cons_t_per_t_meoh, co2_price_usd_per_t))]
    IN  d[product]

\* a plausible slip: the low delta taken as low - baseline
make_entry_low_minus_baseline(label, base, low, high) ==
    <<label, Sub(low, base), Sub(high, base),
      Max(AbsR(Sub(low, base)), AbsR(Sub(high, base)))>>

\* lines 331-332: (label, baseline - low, high - baseline, max(|.|, |.|))
make_entry(label, base, low, high) ==
    <<label, Sub(base, low), Sub(high, base),
      Max(AbsR(Sub(base, low)), AbsR(Sub(high, base)))>>

\* one loop iteration (lines 289-330): the kwargs built and both calls made
trial(key, s) ==
    LET lk == low_kwargs(key, s)
        hk == high_kwargs(key, s)
    IN  [key |-> key, low_kwargs |-> lk, high_kwargs |-> hk,
         low |-> recompute(lk), high |-> recompute(hk)]

\* number of leading elements of a descending list whose magnitude is >= m
RECURSIVE PrefixGeq(_, _)
PrefixGeq(seq, m) ==
    IF seq = <<>> \/ Less(Head(seq)[4], m) THEN 0
    ELSE 1 + PrefixGeq(Tail(seq), m)

\* number of leading elements whose magnitude is > m
RECURSIVE PrefixGt(_, _)
PrefixGt(seq, m) ==
    IF seq = <<>> \/ Leq(Head(seq)[4], m) THEN 0
    ELSE 1 + PrefixGt(Tail(seq), m)

InsertAt(seq, k, e) == SubSeq(seq, 1, k) \o <<e>> \o SubSeq(seq, k + 1, Len(seq))

\* a plausible slip: ascending sort followed by a reversal, which reverses ties
RECURSIVE sort_entries_reversed_ties(_)
sort_entries_reversed_ties(seq) ==
    IF seq = <<>> THEN <<>>
    ELSE LET done == sort_entries_reversed_ties(SubSeq(seq, 1, Len(seq) - 1))
             e == seq[Len(seq)]
         IN  InsertAt(done, PrefixGt(done, e[4]), e)

\* line 335: list.sort(key=magnitude, reverse=True); Python's sort is stable and
\* reverse=True keeps the original order of equal keys
RECURSIVE sort_entries(_)
sort_entries(seq) ==
    IF seq = <<>> THEN <<>>
    ELSE LET done == sort_entries(SubSeq(seq, 1, Len(seq) - 1))
             e == seq[Len(seq)]
         IN  InsertAt(done, PrefixGeq(done, e[4]), e)

\* lines 170-338: the Calculate button
Calculate ==
    /\ pc = "rendered"
    /\ lcoe_chain' = lcoe_from_costs(pv_chain, pv_elec)
    /\ final_kpi_label' = kpi_label
    /\ final_kpi_value' = final_kpi(lcoe_chain')
    /\ \E s \in SensPctSet : sens_pct' = s
    /\ IF ~defaults_bound
       THEN \* line 240: UnboundLocalError, the run stops after the headline
            /\ pc' = "fault"
            /\ UNCHANGED <<baseline, entries, trials>>
       ELSE /\ baseline' = baseline_of(lcoe_chain')
            /\ trials' = [i \in 1..Len(params) |-> trial(params[i][2], sens_pct')]
            /\ entries' = sort_entries(
                   [i \in 1..Len(params) |->
                       make_entry(params[i][1], baseline',
                                  trials'[i].low, trials'[i].high)])
            /\ pc' = "done"
    /\ UNCHANGED <<inputs, call>>

\* any further interaction runs the script again from the top
NewRun ==
    /\ pc \in {"rendered", "done", "fault"}
    /\ pc' = "start"
    /\ product' = "" /\ mode' = ""
    /\ gen_mw' = Unbound /\ capex_gen_mln' = Unbound /\ opex_gen_mln' = Unbound
    /\ cf' = Unbound /\ r' = Unbound /\ n' = 0
    /\ pv_elec' = Unbound /\ pv_cost_gen' = Unbound /\ lcoe_up' = Unbound
    /\ elz_mw' = Unbound /\ capex_elz_mln' = Unbound /\ opex_elz_mln' = Unbound
    /\ electrolyzer_eff' = Unbound /\ pv_cost_elz' = Unbound
    /\ syn_mw' = Unbound /\ capex_syn_mln' = Unbound /\ opex_syn_mln' = Unbound
    /\ nh3_eff' = Unbound /\ meoh_eff' = Unbound
    /\ co2_cons_t_per_t_meoh' = Unbound /\ co2_price_usd_per_t' = Unbound
    /\ pv_cost_syn' = Unbound
    /\ lcoe_chain' = Unbound /\ final_kpi_label' = "" /\ final_kpi_value' = Unbound
    /\ sens_pct' = Unbound /\ baseline' = Unbound
    /\ entries' = <<>> /\ trials' = <<>>
    /\ UNCHANGED call

Next == Render \/ Calculate \/ NewRun

Spec == Init /\ [][Next]_vars

(***************************************************************************)
(* The helpers called directly (lines 15-29), on inputs from bounded sets. *)
(* Each discounting call is made for two discount rates r1 < r2 with the   *)
(* other inputs held fixed.                                                *)
(***************************************************************************)
FnCostSet == {Zero, One, <<275, 1>>, <<657, 2>>, <<1000, 3>>}
FnEnergySet == {Zero, One, <<219, 1>>, <<876, 25>>, <<1, 1000>>}
FnCapacitySet == {Zero, <<1, 10>>, One}
FnCapexSet == {Zero, <<219, 100000>>}
FnOpexSet == {Zero, <<219, 100000>>, <<1, 100>>}
FnCfSet == {Zero, <<1, 4>>, One}
FnRateSet == {Zero, <<1, 10>>, <<1, 2>>, One}

InitFn == Init

Call_lcoe_from_costs ==
    /\ call.fn = "none"
    /\ \E c \in FnCostSet, e \in FnEnergySet :
          call' = [fn |-> "lcoe_from_costs", pv_costs_total |-> c, pv_energy |-> e,
                   out |-> lcoe_from_costs(c, e)]
    /\ UNCHANGED <<pc, inputs, results>>

Call_pv_costs_split ==
    /\ call.fn = "none"
    /\ \E capex \in FnCapexSet, opex \in FnOpexSet, cap \in FnCapacitySet,
          r1 \in FnRateSet, r2 \in FnRateSet, nn \in 1..MaxLifetime :
          /\ Less(r1, r2)
          /\ call' = [fn |-> "pv_costs_split", capex |-> capex, opex |-> opex,
                      capacity_mw |-> cap, r1 |-> r1, r2 |-> r2, n |-> nn,
                      out1 |-> pv_costs_split(capex, opex, cap, r1, nn),
                      out2 |-> pv_costs_split(capex, opex, cap, r2, nn)]
    /\ UNCHANGED <<pc, inputs, results>>

Call_pv_energy_mwh ==
    /\ call.fn = "none"
    /\ \E cap \in FnCapacitySet, c \in FnCfSet,
          r1 \in FnRateSet, r2 \in FnRateSet, nn \in 1..MaxLifetime :
          /\ Less(r1, r2)
          /\ call' = [fn |-> "pv_energy_mwh", capacity_mw |-> cap,
                      capacity_factor |-> c, r1 |-> r1, r2 |-> r2, n |-> nn,
                      out1 |-> pv_energy_mwh(cap, c, r1, nn),
                      out2 |-> pv_energy_mwh(cap, c, r2, nn)]
    /\ UNCHANGED <<pc, inputs, results>>

\* the call returns and the next one can be made
Return ==
    /\ call.fn # "none"
    /\ call' = [fn |-> "none"]
    /\ UNCHANGED <<pc, inputs, results>>

NextFn == Call_lcoe_from_costs \/ Call_pv_costs_split \/ Call_pv_energy_mwh \/ Return

SpecFn == InitFn /\ [][NextFn]_vars

(***************************************************************************)
(* Properties                                                              *)
(***************************************************************************)
KwValue(kw) == kw[CHOOSE k \in DOMAIN kw : TRUE]
ParamIndex(label) == CHOOSE j \in 1..Len(params) : params[j][1] = label
KeyOf(entry) == params[ParamIndex(entry[1])][2]
TrialOf(entry) == trials[ParamIndex(entry[1])]

BaselineValue(key) ==
    CASE key = "capex_gen" -> capex_gen_mln
      [] key = "opex_gen" -> opex_gen_mln
      [] key = "cf" -> cf
      [] key = "r" -> r
      [] key = "capex_elz" -> capex_elz_mln
      [] key = "opex_elz" -> opex_elz_mln
      [] key = "elz_eff" -> electrolyzer_eff
      [] key = "capex_syn" -> capex_syn_mln
      [] key = "opex_syn" -> opex_syn_mln
      [] key = "syn_eff" -> base_eff
      [] key = "co2_cons" -> co2_cons_t_per_t_meoh
      [] key = "co2_price" -> co2_price_usd_per_t

\* The headline calculation (lines 88-89, 124, 166, 171-188) run on the current
\* configuration with the arguments in kw replaced.
HeadlineWith(kw) ==
    LET cf_ == Arg(kw, "cf_", cf)
        r_ == Arg(kw, "r_", r)
        energy == pv_energy_mwh(gen_mw, cf_, r_, n)
        cost_g == pv_costs_split(Arg(kw, "capex_gen", capex_gen_mln),
                                 Arg(kw, "opex_gen", opex_gen_mln), gen_mw, r_, n)[3]
        cost_e == IF need_h2
                  THEN pv_costs_split(Arg(kw, "capex_elz", capex_elz_mln),
                                      Arg(kw, "opex_elz", opex_elz_mln), elz_mw, r_, n)[3]
                  ELSE Zero
        cost_s == IF need_syn
                  THEN pv_costs_split(Arg(kw, "capex_syn", capex_syn_mln),
                                      Arg(kw, "opex_syn", opex_syn_mln), syn_mw, r_, n)[3]
                  ELSE Zero
        lcoe == lcoe_from_costs(Add(Add(cost_g, cost_e), cost_s), energy)
        lcoh == lcoh_from_lcoe(lcoe, Arg(kw, "elz_eff", electrolyzer_eff))
    IN  CASE product = "Electricity (Electrons)" -> lcoe
          [] product = "Hydrogen" -> lcoh
          [] product = "Ammonia" -> lcoa_from_lcoh(lcoh, Arg(kw, "nh3_", nh3_eff))
          [] product = "Methanol" ->
                Add(lcom_from_lcoh(lcoh, Arg(kw, "meoh_", meoh_eff)),
                    Mul(Arg(kw, "co2_cons_", co2_cons_t_per_t_meoh),
                        Arg(kw, "co2_price_", co2_price_usd_per_t)))

\* C1: for every parameter of the sweep and both directions, recompute returns
\* what the headline calculation gives on the configuration with that one
\* parameter replaced (a perturbed capacity factor and discount rate reach the
\* PV energy too).
C1_RecomputeIsHeadline ==
    pc = "done" =>
        \A i \in 1..Len(trials) :
            /\ trials[i].low = HeadlineWith(trials[i].low_kwargs)
            /\ trials[i].high = HeadlineWith(trials[i].high_kwargs)

\* C2: pressing Calculate never ends in a fault, whatever the product; a run
\* that has ended has produced a sensitivity list.
C2_CalculateCompletes ==
    /\ pc # "fault"
    /\ pc = "done" => entries # <<>>

\* C3: the result list is a permutation of the entries built in enumeration
\* order, each (label, baseline - low, high - baseline, max of the absolute
\* deltas), in descending magnitude, entries of equal magnitude in enumeration
\* order.
C3_SortedStable ==
    pc = "done" =>
        /\ Len(entries) = Len(params)
        /\ \A j \in 1..Len(params) : \E i \in 1..Len(entries) : entries[i][1] = params[j][1]
        /\ \A i \in 1..Len(entries) :
              LET t == TrialOf(entries[i])
                  lowDelta == Sub(baseline, t.low)
                  highDelta == Sub(t.high, baseline)
              IN  /\ entries[i][2] = lowDelta
                  /\ entries[i][3] = highDelta
                  /\ entries[i][4] = IF Less(AbsR(lowDelta), AbsR(highDelta))
                                     THEN AbsR(highDelta) ELSE AbsR(lowDelta)
        /\ \A i, j \in 1..Len(entries) :
              i < j =>
                /\ Leq(entries[j][4], entries[i][4])
                /\ entries[i][4] = entries[j][4] =>
                      ParamIndex(entries[i][1]) < ParamIndex(entries[j][1])

\* a completed sweep that the sort reordered and that holds a tie
C3_Witness ==
    /\ pc = "done"
    /\ \E i \in 1..Len(entries) : ParamIndex(entries[i][1]) # i
    /\ \E i, j \in 1..Len(entries) : i < j /\ entries[i][4] = entries[j][4]
    /\ \E i, j \in 1..Len(entries) : Less(entries[j][4], entries[i][4])

InRange(x, lo, hi) == Leq(lo, x) /\ Leq(x, hi)

ValueInStatedRange(key, x) ==
    CASE key \in {"elz_eff", "syn_eff"} -> InRange(x, P01, P095)
      [] key = "cf" -> InRange(x, P005, P095)
      [] OTHER -> Leq(Zero, x)

\* C4: both perturbed values passed to recompute stay in the stated range:
\* efficiencies in [0.1, 0.95], capacity factor in [0.05, 0.95], discount rate
\* and every CAPEX, OPEX and CO2 quantity >= 0.
C4_PerturbedValuesInRange ==
    pc = "done" =>
        \A i \in 1..Len(trials) :
            /\ ValueInStatedRange(trials[i].key, KwValue(trials[i].low_kwargs))
            /\ ValueInStatedRange(trials[i].key, KwValue(trials[i].high_kwargs))

\* the PV cost of a block, from the inputs
BlockCost(capex, opex, mw) ==
    Add(Mul(Mul(mw, capex), <<Million, 1>>),
        DiscountedSum(Mul(Mul(mw, opex), <<Million, 1>>), r, n))

\* C5: the final KPI is selected by product alone: Electricity the chain LCOE,
\* Hydrogen LCOH from it, Ammonia LCOA from that LCOH with no surcharge,
\* Methanol LCOM from that LCOH plus co2 consumption x co2 price; the chain
\* LCOE sums Generation always, Electrolyzer only for Hydrogen/Ammonia/Methanol,
\* Synthesis only for Ammonia/Methanol.
C5_FinalKpiByProduct ==
    pc \in {"done", "fault"} =>
        LET chain ==
                Add(BlockCost(capex_gen_mln, opex_gen_mln, gen_mw),
                    Add(IF product \in {"Hydrogen", "Ammonia", "Methanol"}
                        THEN BlockCost(capex_elz_mln, opex_elz_mln, elz_mw) ELSE Zero,
                        IF product \in {"Ammonia", "Methanol"}
                        THEN BlockCost(capex_syn_mln, opex_syn_mln, syn_mw) ELSE Zero))
            surcharge == IF product = "Methanol"
                         THEN Mul(co2_cons_t_per_t_meoh, co2_price_usd_per_t) ELSE Zero
            core == Sub(final_kpi_value, surcharge)
        IN  /\ Mul(lcoe_chain, pv_elec) = chain
            /\ product = "Electricity (Electrons)" =>
                  final_kpi_label = "LCOE" /\ core = lcoe_chain
            /\ product = "Hydrogen" =>
                  /\ final_kpi_label = "LCOH"
                  /\ Mul(core, electrolyzer_eff) = Mul(lcoe_chain, H2EnergyContent)
            /\ product = "Ammonia" =>
                  /\ final_kpi_label = "LCOA"
                  /\ Mul(Mul(core, electrolyzer_eff), nh3_eff)
                        = Mul(lcoe_chain, NH3EnergyContent)
            /\ product = "Methanol" =>
                  /\ final_kpi_label = "LCOM"
                  /\ Mul(Mul(core, electrolyzer_eff), meoh_eff)
                        = Mul(lcoe_chain, MeOHEnergyContent)

\* a Methanol run with a positive CO2 surcharge and all three blocks costed
C5_Witness ==
    /\ pc = "done"
    /\ product = "Methanol"
    /\ Less(Zero, Mul(co2_cons_t_per_t_meoh, co2_price_usd_per_t))
    /\ Less(Zero, pv_cost_elz) /\ Less(Zero, pv_cost_syn)
    /\ Less(Mul(co2_cons_t_per_t_meoh, co2_price_usd_per_t), final_kpi_value)

ActiveKeys ==
    {"capex_gen", "opex_gen", "cf", "r"}
    \cup (IF product \in {"Hydrogen", "Ammonia", "Methanol"}
          THEN {"capex_elz", "opex_elz", "elz_eff"} ELSE {})
    \cup (IF product \in {"Ammonia", "Methanol"}
          THEN {"capex_syn", "opex_syn", "syn_eff"} ELSE {})
    \cup (IF product = "Methanol" THEN {"co2_cons", "co2_price"} ELSE {})

ActiveCount ==
    CASE product = "Electricity (Electrons)" -> 4
      [] product = "Hydrogen" -> 7
      [] product = "Ammonia" -> 10
      [] product = "Methanol" -> 12

\* C6: once Calculate has run, the sensitivity list holds exactly one entry per
\* active parameter of the product and no others: 4, 7, 10 and 12 entries for
\* Electricity, Hydrogen, Ammonia and Methanol.
C6_OneEntryPerActiveParameter ==
    pc \in {"done", "fault"} =>
        /\ Len(entries) = ActiveCount
        /\ {KeyOf(entries[i]) : i \in 1..Len(entries)} = ActiveKeys
        /\ Cardinality(ActiveKeys) = ActiveCount

\* C7: lcoe_from_costs never faults and never yields a non-number other than
\* +infinity: +infinity when the energy is exactly 0, the quotient otherwise;
\* so a zero cost over positive energy is 0 and a positive cost over zero
\* energy is +infinity.
C7_LevelizedCostTotal ==
    call.fn = "lcoe_from_costs" =>
        LET c == call.pv_costs_total
            e == call.pv_energy
        IN  /\ call.out # ZeroDivisionError
            /\ call.out = Inf \/ IsNumber(call.out)
            /\ e = Zero <=> call.out = Inf
            /\ e # Zero => Mul(call.out, e) = c
            /\ (c = Zero /\ Less(Zero, e)) => call.out = Zero
            /\ (Less(Zero, c) /\ e = Zero) => call.out = Inf

\* a positive cost over exactly zero energy gave +infinity
C7_Witness ==
    /\ call.fn = "lcoe_from_costs"
    /\ Less(Zero, call.pv_costs_total)
    /\ call.pv_energy = Zero
    /\ call.out = Inf

IsZeroBaseline(key) == BaselineValue(key) = Zero

\* C8: an entry whose parameter has baseline value 0 has lowDelta = 0 and
\* highDelta = 0: both recomputations equal the baseline KPI, for any
\* perturbation fraction.
C8_ZeroBaselineZeroDelta ==
    pc = "done" =>
        \A i \in 1..Len(entries) :
            IsZeroBaseline(KeyOf(entries[i])) =>
                /\ entries[i][2] = Zero
                /\ entries[i][3] = Zero
                /\ TrialOf(entries[i]).low = final_kpi_value
                /\ TrialOf(entries[i]).high = final_kpi_value

\* a completed sweep with a zero-baseline parameter of a block that has capacity,
\* next to a parameter whose deltas are not zero
C8_Witness ==
    /\ pc = "done"
    /\ \E i \in 1..Len(entries) :
          /\ KeyOf(entries[i]) \in {"capex_elz", "opex_elz", "capex_syn", "opex_syn",
                                    "co2_cons", "co2_price"}
          /\ IsZeroBaseline(KeyOf(entries[i]))
          /\ entries[i][2] = Zero /\ entries[i][3] = Zero
    /\ \E i \in 1..Len(entries) : entries[i][3] # Zero
    /\ Less(Zero, elz_mw) /\ Less(Zero, syn_mw)

LinearKeys == {"capex_gen", "opex_gen", "capex_elz", "opex_elz",
               "capex_syn", "opex_syn", "co2_cons", "co2_price"}

\* C9 as stated: for a parameter the KPI is linear in, with a positive baseline,
\* the recorded deltas satisfy lowDelta = -highDelta.
C9_LowDeltaIsMinusHighDelta ==
    pc = "done" =>
        \A i \in 1..Len(entries) :
            (KeyOf(entries[i]) \in LinearKeys
                /\ Less(Zero, BaselineValue(KeyOf(entries[i])))
                /\ IsNumber(baseline)) =>
                    entries[i][2] = Neg(entries[i][3])

\* C9 as amended: for a parameter the KPI is linear in, with a positive
\* baseline, the recorded deltas satisfy lowDelta = highDelta
\* (baseline - low = high - baseline).
C9_LowDeltaEqualsHighDelta ==
    pc = "done" =>
        \A i \in 1..Len(entries) :
            (KeyOf(entries[i]) \in LinearKeys
                /\ Less(Zero, BaselineValue(KeyOf(entries[i])))
                /\ IsNumber(baseline)) =>
                    entries[i][2] = entries[i][3]

\* a linear parameter with a positive baseline whose deltas are positive
C9_Witness ==
    /\ pc = "done"
    /\ \E i \in 1..Len(entries) :
          /\ KeyOf(entries[i]) \in LinearKeys
          /\ Less(Zero, BaselineValue(KeyOf(entries[i])))
          /\ Less(Zero, entries[i][2])
          /\ entries[i][2] = entries[i][3]

\* C10 as stated: for non-negative inputs, lifetime >= 1 and rates
\* 0 <= r1 < r2, pvOpex and pvEnergyMWh are non-negative and strictly smaller
\* at r2 than at r1.
C10_StrictlyDecreasing ==
    /\ call.fn = "pv_costs_split" =>
          /\ Leq(Zero, call.out1[2]) /\ Leq(Zero, call.out2[2])
          /\ Less(call.out2[2], call.out1[2])
    /\ call.fn = "pv_energy_mwh" =>
          /\ Leq(Zero, call.out1) /\ Leq(Zero, call.out2)
          /\ Less(call.out2, call.out1)

\* C10 as amended: pvOpex and pvEnergyMWh are non-negative and never larger at
\* r2 than at r1; strictly smaller exactly when the annual amount
\* (capacity x OPEX, capacity x 8760 x capacity factor) is positive, and 0 at
\* both rates when it is 0.
C10_DecreasingWhenPositive ==
    /\ call.fn = "pv_costs_split" =>
          LET positive == Less(Zero, call.capacity_mw) /\ Less(Zero, call.opex)
          IN  /\ Leq(Zero, call.out1[2]) /\ Leq(Zero, call.out2[2])
              /\ Leq(call.out2[2], call.out1[2])
              /\ positive => Less(call.out2[2], call.out1[2])
              /\ ~positive => call.out1[2] = Zero /\ call.out2[2] = Zero
    /\ call.fn = "pv_energy_mwh" =>
          LET positive == Less(Zero, call.capacity_mw) /\ Less(Zero, call.capacity_factor)
          IN  /\ Leq(Zero, call.out1) /\ Leq(Zero, call.out2)
              /\ Leq(call.out2, call.out1)
              /\ positive => Less(call.out2, call.out1)
              /\ ~positive => call.out1 = Zero /\ call.out2 = Zero

\* a pv_costs_split call with a positive annual OPEX over more than one year,
\* from rate 0, whose PV OPEX fell
C10_Witness ==
    /\ call.fn = "pv_costs_split"
    /\ Less(Zero, call.capacity_mw) /\ Less(Zero, call.opex)
    /\ call.r1 = Zero /\ call.n > 1
    /\ Less(call.out2[2], call.out1[2])

====
